---------------------------- MODULE Spec2Model ----------------------------
(***************************************************************************)
(* A model of the afterimage emulator core: the memory bus (memory.rs),    *)
(* the ARM7TDMI interpreter (cpu.rs), the line counter (ppu.rs) and the    *)
(* system driver (gba.rs).                                                 *)
(*                                                                         *)
(* A u32 is the pair <<hi, lo>> of its two 16-bit halves: the value is     *)
(* hi * 65536 + lo.  All 32-bit arithmetic is done on such pairs, modulo   *)
(* 2^32.  A u8 and a u16 are plain naturals.                               *)
(*                                                                         *)
(* A zero-initialised backing buffer (vec![0; N]) is a function from the   *)
(* indices that hold a non-zero byte to that byte; every other index of    *)
(* the buffer reads 0.                                                     *)
(***************************************************************************)
EXTENDS Integers, Sequences, FiniteSets, TLC

VARIABLES
    cpu,              \* the Cpu struct
    memory,           \* the Memory struct
    vcount,           \* Ppu.vcount
    cycles,           \* Gba.cycles
    overflow_checks,  \* the build profile: TRUE when integer overflow panics
    panicked,         \* TRUE once an operation has aborted the process
    last,             \* the last operation: its name, inputs, result, and the state before it
    ops,              \* the number of operations performed
    frame             \* Gba::run_frame: whether its loop is running, and its target_cycles

vars == <<cpu, memory, vcount, cycles, overflow_checks, panicked, last, ops, frame>>

(***************************************************************************)
(* Bounds of the model.                                                    *)
(***************************************************************************)
MaxOps == 2

\* the frames run_frame is called for
MaxFrames == 1

(***************************************************************************)
(* 32-bit words.                                                           *)
(***************************************************************************)
W(hi, lo) == <<hi, lo>>

Hi(w) == w[1]

Lo(w) == w[2]

Zero32 == W(0, 0)

U32(n) == W(n \div 65536, n % 65536)

\* a + b as the hardware computes it, modulo 2^32 (u32::wrapping_add)
Add32(a, b) ==
    LET s == Lo(a) + Lo(b)
    IN  W((Hi(a) + Hi(b) + (s \div 65536)) % 65536, s % 65536)

\* TRUE when a + b does not fit in a u32
AddOverflows(a, b) ==
    Hi(a) + Hi(b) + ((Lo(a) + Lo(b)) \div 65536) > 65535

\* the two's complement of a
Neg32(a) == Add32(W(65535 - Hi(a), 65535 - Lo(a)), W(0, 1))

\* a - b modulo 2^32 (u32::wrapping_sub)
Sub32(a, b) == Add32(a, Neg32(b))

\* unsigned a <= b, a < b
Le32(a, b) == Hi(a) < Hi(b) \/ (Hi(a) = Hi(b) /\ Lo(a) <= Lo(b))

Lt32(a, b) == Hi(a) < Hi(b) \/ (Hi(a) = Hi(b) /\ Lo(a) < Lo(b))

\* bit 31 of a
Bit31(a) == Hi(a) >= 32768

RECURSIVE BitAnd(_, _)
\* the bitwise and of two naturals
BitAnd(a, b) ==
    IF a = 0 \/ b = 0 THEN 0
    ELSE (a % 2) * (b % 2) + 2 * BitAnd(a \div 2, b \div 2)

\* the bitwise or of two naturals
BitOr(a, b) == a + b - BitAnd(a, b)

And32(a, b) == W(BitAnd(Hi(a), Hi(b)), BitAnd(Lo(a), Lo(b)))

Or32(a, b) == W(BitOr(Hi(a), Hi(b)), BitOr(Lo(a), Lo(b)))

\* a as usize, for the values the address decoder produces (below 2^31)
AsUsize(a) == Hi(a) * 65536 + Lo(a)

\* address in first..=last_
InRange(address, first, last_) == Le32(first, address) /\ Le32(address, last_)

(***************************************************************************)
(* Backing buffers.                                                        *)
(***************************************************************************)
EmptyBuf == [i \in {} |-> 0]

\* buf[i]
BufGet(buf, i) == IF i \in DOMAIN buf THEN buf[i] ELSE 0

\* buf[i] = value
BufSet(buf, i, value) ==
    LET dom == IF value = 0 THEN DOMAIN buf \ {i} ELSE DOMAIN buf \cup {i}
    IN  [j \in dom |-> IF j = i THEN value ELSE buf[j]]

\* Memory::new
MemoryNew ==
    [bios |-> EmptyBuf, ewram |-> EmptyBuf, iwram |-> EmptyBuf, vram |-> EmptyBuf,
     palette_ram |-> EmptyBuf, oam |-> EmptyBuf, rom |-> <<>>]

(***************************************************************************)
(* Memory::read_u8, read_u16, read_u32.                                    *)
(***************************************************************************)
\* a cartridge read that takes a byte beyond the image for zero
rom_byte_zero_filled(m, address) ==
    LET rom_addr == AsUsize(Sub32(address, W(\h0800, \h0000)))
    IN  IF rom_addr < Len(m.rom) THEN m.rom[rom_addr + 1] ELSE 0

\* the cartridge arm of read_u8
rom_byte(m, address) ==
    LET rom_addr == AsUsize(Sub32(address, W(\h0800, \h0000)))
    IN  IF rom_addr < Len(m.rom) THEN m.rom[rom_addr + 1] ELSE \hFF

read_u8(m, address) ==
    CASE InRange(address, W(\h0000, \h0000), W(\h0000, \h3FFF)) ->
            BufGet(m.bios, AsUsize(And32(address, W(0, \h3FFF))))
      [] InRange(address, W(\h0200, \h0000), W(\h0203, \hFFFF)) ->
            BufGet(m.ewram, AsUsize(And32(address, W(\h0003, \hFFFF))))
      [] InRange(address, W(\h0300, \h0000), W(\h0300, \h7FFF)) ->
            BufGet(m.iwram, AsUsize(And32(address, W(0, \h7FFF))))
      [] InRange(address, W(\h0600, \h0000), W(\h0601, \h7FFF)) ->
            BufGet(m.vram, AsUsize(And32(address, W(\h0001, \h7FFF))))
      [] InRange(address, W(\h0500, \h0000), W(\h0500, \h03FF)) ->
            BufGet(m.palette_ram, AsUsize(And32(address, W(0, \h03FF))))
      [] InRange(address, W(\h0700, \h0000), W(\h0700, \h03FF)) ->
            BufGet(m.oam, AsUsize(And32(address, W(0, \h03FF))))
      [] InRange(address, W(\h0800, \h0000), W(\h09FF, \hFFFF)) -> rom_byte(m, address)
      [] InRange(address, W(\h0400, \h0000), W(\h0400, \h03FF)) -> 0
      [] OTHER -> \hFF

\* low | (high << 8), the second byte read at address + 1
read_u16(m, address) ==
    LET low  == read_u8(m, address)
        high == read_u8(m, Add32(address, W(0, 1)))
    IN  low + high * 256

\* the `address + 1` of read_u16 overflows
read_u16_overflows(address) == AddOverflows(address, W(0, 1))

\* low | (high << 16), the second half read at address + 2
read_u32(m, address) ==
    LET low  == read_u16(m, address)
        high == read_u16(m, Add32(address, W(0, 2)))
    IN  W(high, low)

\* one of the additions of read_u32, or of the read_u16 it calls, overflows
read_u32_overflows(address) ==
    \/ read_u16_overflows(address)
    \/ AddOverflows(address, W(0, 2))
    \/ read_u16_overflows(Add32(address, W(0, 2)))

(***************************************************************************)
(* Memory::write_u8, write_u16, write_u32.                                 *)
(***************************************************************************)
\* a write_u8 whose default arm stores into the cartridge image
write_unhandled_into_rom(m, address, value) ==
    LET rom_addr == AsUsize(Sub32(address, W(\h0800, \h0000)))
    IN  IF InRange(address, W(\h0800, \h0000), W(\h09FF, \hFFFF)) /\ rom_addr < Len(m.rom)
        THEN [m EXCEPT !.rom[rom_addr + 1] = value]
        ELSE m

\* the I/O arm and the default arm of write_u8: nothing is stored
write_unhandled(m, address, value) == m

write_u8(m, address, value) ==
    CASE InRange(address, W(\h0200, \h0000), W(\h0203, \hFFFF)) ->
            [m EXCEPT !.ewram =
                BufSet(@, AsUsize(And32(address, W(\h0003, \hFFFF))), value)]
      [] InRange(address, W(\h0300, \h0000), W(\h0300, \h7FFF)) ->
            [m EXCEPT !.iwram =
                BufSet(@, AsUsize(And32(address, W(0, \h7FFF))), value)]
      [] InRange(address, W(\h0600, \h0000), W(\h0601, \h7FFF)) ->
            [m EXCEPT !.vram =
                BufSet(@, AsUsize(And32(address, W(\h0001, \h7FFF))), value)]
      [] InRange(address, W(\h0500, \h0000), W(\h0500, \h03FF)) ->
            [m EXCEPT !.palette_ram =
                BufSet(@, AsUsize(And32(address, W(0, \h03FF))), value)]
      [] InRange(address, W(\h0700, \h0000), W(\h0700, \h03FF)) ->
            [m EXCEPT !.oam =
                BufSet(@, AsUsize(And32(address, W(0, \h03FF))), value)]
      [] InRange(address, W(\h0400, \h0000), W(\h0400, \h03FF)) ->
            write_unhandled(m, address, value)
      [] OTHER -> write_unhandled(m, address, value)

\* a write_u16 that stores the high byte first
write_u16_high_first(m, address, value) ==
    write_u8(write_u8(m, address, value \div 256),
             Add32(address, W(0, 1)), value % 256)

\* value as u8 at address, then value >> 8 at address + 1
write_u16(m, address, value) ==
    write_u8(write_u8(m, address, value % 256),
             Add32(address, W(0, 1)), value \div 256)

\* the `address + 1` of write_u16 overflows
write_u16_overflows(address) == AddOverflows(address, W(0, 1))

\* value as u16 at address, then value >> 16 at address + 2
write_u32(m, address, value) ==
    write_u16(write_u16(m, address, Lo(value)),
              Add32(address, W(0, 2)), Hi(value))

\* one of the additions of write_u32, or of the write_u16 it calls, overflows
write_u32_overflows(address) ==
    \/ write_u16_overflows(address)
    \/ AddOverflows(address, W(0, 2))
    \/ write_u16_overflows(Add32(address, W(0, 2)))

\* the state of memory when the first addition of write_u32 overflows
write_u32_at_overflow(m, address, value) ==
    IF write_u16_overflows(address)
    THEN write_u8(m, address, Lo(value) % 256)
    ELSE IF AddOverflows(address, W(0, 2))
    THEN write_u16(m, address, Lo(value))
    ELSE write_u8(write_u16(m, address, Lo(value)),
                  Add32(address, W(0, 2)), Hi(value) % 256)

(***************************************************************************)
(* More 32-bit arithmetic, for the interpreter.                            *)
(***************************************************************************)
\* (w >> shift) & (2^width - 1), for a field that lies in one half of w
Field(w, shift, width) ==
    IF shift >= 16
    THEN (Hi(w) \div (2 ^ (shift - 16))) % (2 ^ width)
    ELSE (Lo(w) \div (2 ^ shift)) % (2 ^ width)

\* (i >> shift) & (2^width - 1) of a u16
Field16(i, shift, width) == (i \div (2 ^ shift)) % (2 ^ width)

RECURSIVE Shl32(_, _)
\* w << n, the bits shifted out lost
Shl32(w, n) == IF n = 0 THEN w ELSE Shl32(Add32(w, w), n - 1)

RECURSIVE RotR32(_, _)
\* u32::rotate_right
RotR32(w, n) ==
    IF n = 0 THEN w
    ELSE RotR32(W((Hi(w) \div 2) + (Lo(w) % 2) * 32768,
                  (Lo(w) \div 2) + (Hi(w) % 2) * 32768), n - 1)

\* a + b as i32 values leaves the i32 range
SignedAddOverflows(a, b) ==
    Bit31(a) = Bit31(b) /\ Bit31(Add32(a, b)) # Bit31(a)

\* an i16 as i32
SignExtend16(h) == W(IF h >= 32768 THEN 65535 ELSE 0, h)

(***************************************************************************)
(* Cpu.                                                                    *)
(***************************************************************************)
\* Cpu::new
CpuNew ==
    [registers |-> [i \in 0..12 |-> Zero32],
     sp |-> W(\h0300, \h7F00),
     lr |-> Zero32,
     pc |-> W(\h0800, \h0000),
     cpsr |-> W(0, \h1F),
     spsr |-> [i \in 0..4 |-> Zero32],
     mode |-> "System",
     thumb_mode |-> FALSE]

\* a check_condition whose GE and LT arms are exchanged
check_condition_ge_lt_exchanged(c, condition) ==
    LET n == Field(c.cpsr, 31, 1) = 1
        z == Field(c.cpsr, 30, 1) = 1
        cf == Field(c.cpsr, 29, 1) = 1
        v == Field(c.cpsr, 28, 1) = 1
    IN  CASE condition = 0 -> z
          [] condition = 1 -> ~z
          [] condition = 2 -> cf
          [] condition = 3 -> ~cf
          [] condition = 4 -> n
          [] condition = 5 -> ~n
          [] condition = 6 -> v
          [] condition = 7 -> ~v
          [] condition = 8 -> cf /\ ~z
          [] condition = 9 -> ~cf \/ z
          [] condition = 10 -> n # v
          [] condition = 11 -> n = v
          [] condition = 12 -> ~z /\ (n = v)
          [] condition = 13 -> z \/ (n # v)
          [] condition = 14 -> TRUE
          [] condition = 15 -> FALSE
          [] OTHER -> FALSE

\* Cpu::check_condition
check_condition(c, condition) ==
    LET n == Field(c.cpsr, 31, 1) = 1
        z == Field(c.cpsr, 30, 1) = 1
        cf == Field(c.cpsr, 29, 1) = 1
        v == Field(c.cpsr, 28, 1) = 1
    IN  CASE condition = 0 -> z
          [] condition = 1 -> ~z
          [] condition = 2 -> cf
          [] condition = 3 -> ~cf
          [] condition = 4 -> n
          [] condition = 5 -> ~n
          [] condition = 6 -> v
          [] condition = 7 -> ~v
          [] condition = 8 -> cf /\ ~z
          [] condition = 9 -> ~cf \/ z
          [] condition = 10 -> n = v
          [] condition = 11 -> n # v
          [] condition = 12 -> ~z /\ (n = v)
          [] condition = 13 -> z \/ (n # v)
          [] condition = 14 -> TRUE
          [] condition = 15 -> FALSE
          [] OTHER -> FALSE

\* a get_register that reads the program counter one instruction ahead, not two
get_register_one_ahead(c, reg) ==
    CASE reg \in 0..12 -> c.registers[reg]
      [] reg = 13 -> c.sp
      [] reg = 14 -> c.lr
      [] reg = 15 -> Add32(c.pc, W(0, 4))
      [] OTHER -> Zero32

\* Cpu::get_register
get_register(c, reg) ==
    CASE reg \in 0..12 -> c.registers[reg]
      [] reg = 13 -> c.sp
      [] reg = 14 -> c.lr
      [] reg = 15 -> Add32(c.pc, W(0, 8))
      [] OTHER -> Zero32

\* the `self.pc + 8` of get_register overflows
get_register_overflows(c, reg) == reg = 15 /\ AddOverflows(c.pc, W(0, 8))

\* a set_register that stores a value for register 15 as it is
set_register_unmasked(c, reg, value) ==
    CASE reg \in 0..12 -> [c EXCEPT !.registers[reg] = value]
      [] reg = 13 -> [c EXCEPT !.sp = value]
      [] reg = 14 -> [c EXCEPT !.lr = value]
      [] reg = 15 -> [c EXCEPT !.pc = value]
      [] OTHER -> c

\* Cpu::set_register
set_register(c, reg, value) ==
    CASE reg \in 0..12 -> [c EXCEPT !.registers[reg] = value]
      [] reg = 13 -> [c EXCEPT !.sp = value]
      [] reg = 14 -> [c EXCEPT !.lr = value]
      [] reg = 15 -> [c EXCEPT !.pc = And32(value, W(\hFFFF, \hFFFC))]
      [] OTHER -> c

\* a get_data_processing_operand that rotates by the rotate field, not twice it
get_data_processing_operand_unscaled(c, instruction) ==
    IF Field(instruction, 25, 1) = 1
    THEN LET imm == W(0, Field(instruction, 0, 8))
             rotate == Field(instruction, 8, 4)
         IN  RotR32(imm, rotate)
    ELSE LET rm == Field(instruction, 0, 4)
         IN  get_register(c, rm)

\* Cpu::get_data_processing_operand
get_data_processing_operand(c, instruction) ==
    IF Field(instruction, 25, 1) = 1
    THEN LET imm == W(0, Field(instruction, 0, 8))
             rotate == Field(instruction, 8, 4) * 2
         IN  RotR32(imm, rotate)
    ELSE LET rm == Field(instruction, 0, 4)
         IN  get_register(c, rm)

\* the get_register of get_data_processing_operand overflows
get_data_processing_operand_overflows(c, instruction) ==
    Field(instruction, 25, 1) # 1 /\ get_register_overflows(c, Field(instruction, 0, 4))

(***************************************************************************)
(* The result of a piece of a step: the state it leaves when every         *)
(* addition wraps, whether an addition overflowed, and the state at the    *)
(* first overflow (where a build with overflow checks panics).             *)
(***************************************************************************)
Completed(c, m) ==
    [cpu |-> c, memory |-> m, overflow |-> FALSE, at_cpu |-> c, at_memory |-> m]

Overflowed(c, m, at_c, at_m) ==
    [cpu |-> c, memory |-> m, overflow |-> TRUE, at_cpu |-> at_c, at_memory |-> at_m]

Outcome(c, m, overflow, at_c, at_m) ==
    IF overflow THEN Overflowed(c, m, at_c, at_m) ELSE Completed(c, m)

(***************************************************************************)
(* Cpu::execute_branch.                                                    *)
(***************************************************************************)
\* a branch offset that is not sign-extended
branch_offset_unsigned(instruction) ==
    Shl32(And32(instruction, W(\h00FF, \hFFFF)), 2)

\* the 24-bit offset field, sign-extended from bit 23 and shifted left by 2
branch_offset(instruction) ==
    LET offset == And32(instruction, W(\h00FF, \hFFFF))
        extended == IF BitAnd(Hi(offset), \h0080) # 0
                    THEN Or32(offset, W(\hFF00, \h0000))
                    ELSE offset
    IN  Shl32(extended, 2)

\* a link that saves the address after the next instruction
save_link_one_ahead(c, link) ==
    IF link THEN [c EXCEPT !.lr = Add32(c.pc, W(0, 4))] ELSE c

\* if link { self.lr = self.pc }
save_link(c, link) == IF link THEN [c EXCEPT !.lr = c.pc] ELSE c

execute_branch(c, m, instruction) ==
    LET link == Field(instruction, 24, 1) = 1
        offset == branch_offset(instruction)
        linked == save_link(c, link)
        sum == Add32(linked.pc, offset)
        target == Add32(sum, W(0, 4))
        overflow == \/ SignedAddOverflows(linked.pc, offset)
                    \/ SignedAddOverflows(sum, W(0, 4))
    IN  Outcome([linked EXCEPT !.pc = target], m, overflow, linked, m)

(***************************************************************************)
(* Cpu::execute_single_data_transfer.                                      *)
(***************************************************************************)
execute_single_data_transfer(c, m, instruction) ==
    LET load == Field(instruction, 20, 1) = 1
        byte == Field(instruction, 22, 1) = 1
        up == Field(instruction, 23, 1) = 1
        pre == Field(instruction, 24, 1) = 1
        writeback == Field(instruction, 21, 1) = 1
        rd == Field(instruction, 12, 4)
        rn == Field(instruction, 16, 4)
        base == get_register(c, rn)
        unsigned_offset == IF Field(instruction, 25, 1) = 1
                           THEN Zero32
                           ELSE W(0, Field(instruction, 0, 12))
        offset == IF up THEN unsigned_offset ELSE Sub32(Zero32, unsigned_offset)
        address == IF pre THEN Add32(base, offset) ELSE base
        loaded == IF byte THEN W(0, read_u8(m, address)) ELSE read_u32(m, address)
        stored == get_register(c, rd)
        accessed_cpu == IF load THEN set_register(c, rd, loaded) ELSE c
        accessed_memory ==
            IF load THEN m
            ELSE IF byte THEN write_u8(m, address, Lo(stored) % 256)
            ELSE write_u32(m, address, stored)
        new_base == IF pre THEN address ELSE Add32(base, offset)
        final_cpu == IF ~pre \/ writeback
                     THEN set_register(accessed_cpu, rn, new_base)
                     ELSE accessed_cpu
        early == \/ get_register_overflows(c, rn)
                 \/ (load /\ ~byte /\ read_u32_overflows(address))
                 \/ (~load /\ get_register_overflows(c, rd))
        in_write == ~early /\ ~load /\ ~byte /\ write_u32_overflows(address)
    IN  Outcome(final_cpu, accessed_memory, early \/ in_write, c,
                IF in_write THEN write_u32_at_overflow(m, address, stored) ELSE m)

(***************************************************************************)
(* Cpu::execute_arm.                                                       *)
(***************************************************************************)
\* a compare that sets the bits without clearing the four first
compare_flags_not_cleared(cpsr, rn_val, operand) ==
    LET result == Sub32(rn_val, operand)
        with_z == IF result = Zero32 THEN Or32(cpsr, W(\h4000, 0)) ELSE cpsr
        with_n == IF Bit31(result) THEN Or32(with_z, W(\h8000, 0)) ELSE with_z
    IN  IF Le32(operand, rn_val) THEN Or32(with_n, W(\h2000, 0)) ELSE with_n

\* opcode 0xA: the flags word after comparing rn_val with operand
compare_flags(cpsr, rn_val, operand) ==
    LET result == Sub32(rn_val, operand)
        cleared == And32(cpsr, W(\h0FFF, \hFFFF))
        with_z == IF result = Zero32 THEN Or32(cleared, W(\h4000, 0)) ELSE cleared
        with_n == IF Bit31(result) THEN Or32(with_z, W(\h8000, 0)) ELSE with_z
    IN  IF Le32(operand, rn_val) THEN Or32(with_n, W(\h2000, 0)) ELSE with_n

\* the data-processing arm of execute_arm: the match on the opcode
execute_data_processing(c, m, instruction) ==
    LET opcode == Field(instruction, 21, 4)
        rd == Field(instruction, 12, 4)
        rn == Field(instruction, 16, 4)
        operand == get_data_processing_operand(c, instruction)
        operand_overflows == get_data_processing_operand_overflows(c, instruction)
        rn_overflows == get_register_overflows(c, rn)
    IN  CASE opcode = 13 ->
                Outcome(set_register(c, rd, operand), m, operand_overflows, c, m)
          [] opcode = 4 ->
                Outcome(set_register(c, rd, Add32(get_register(c, rn), operand)), m,
                        operand_overflows \/ rn_overflows, c, m)
          [] opcode = 2 ->
                Outcome(set_register(c, rd, Sub32(get_register(c, rn), operand)), m,
                        operand_overflows \/ rn_overflows, c, m)
          [] opcode = 10 ->
                Outcome([c EXCEPT !.cpsr =
                            compare_flags(c.cpsr, get_register(c, rn), operand)], m,
                        operand_overflows \/ rn_overflows, c, m)
          [] OTHER -> Completed(c, m)

execute_arm(c, m, instruction) ==
    IF ~check_condition(c, Field(instruction, 28, 4))
    THEN Completed(c, m)
    ELSE IF Field(instruction, 25, 3) = 5
    THEN execute_branch(c, m, instruction)
    ELSE IF Field(instruction, 26, 2) = 1
    THEN execute_single_data_transfer(c, m, instruction)
    ELSE execute_data_processing(c, m, instruction)

(***************************************************************************)
(* Cpu::execute_thumb.  The instruction is a u16.                          *)
(***************************************************************************)
\* a Thumb branch offset that is not doubled
thumb_offset_unshifted(instruction, width) ==
    LET offset == instruction % (2 ^ width)
    IN  SignExtend16(IF Field16(offset, width - 1, 1) # 0
                     THEN BitOr(offset, 65536 - 2 ^ width)
                     ELSE offset)

\* ((offset as i16) << 1) as i32, offset the field's low `width` bits sign-extended
thumb_offset(instruction, width) ==
    LET offset == instruction % (2 ^ width)
        extended == IF Field16(offset, width - 1, 1) # 0
                    THEN BitOr(offset, 65536 - 2 ^ width)
                    ELSE offset
    IN  SignExtend16((extended * 2) % 65536)

\* self.pc = ((self.pc as i32) + offset + 2) as u32
thumb_jump(c, m, offset) ==
    LET sum == Add32(c.pc, offset)
    IN  Outcome([c EXCEPT !.pc = Add32(sum, W(0, 2))], m,
                SignedAddOverflows(c.pc, offset) \/ SignedAddOverflows(sum, W(0, 2)),
                c, m)

\* a long branch whose high half is staged without its sign
long_branch_high_unsigned(c, instruction) ==
    [c EXCEPT !.lr = Add32(Add32(c.pc, Shl32(W(0, instruction % 2048), 12)), W(0, 2))]

\* opcode 0x1E: the high half of the long branch with link, staged in lr
long_branch_high(c, instruction) ==
    LET offset_high == instruction % 2048
        shifted == Shl32(W(0, offset_high), 12)
        full_offset == IF BitAnd(offset_high, \h400) # 0
                       THEN Or32(shifted, W(\hFF80, \h0000))
                       ELSE shifted
    IN  [c EXCEPT !.lr = Add32(Add32(c.pc, full_offset), W(0, 2))]

\* the `self.pc as i32 + full_offset as i32 + 2` of opcode 0x1E overflows
long_branch_high_overflows(c, instruction) ==
    LET offset_high == instruction % 2048
        shifted == Shl32(W(0, offset_high), 12)
        full_offset == IF BitAnd(offset_high, \h400) # 0
                       THEN Or32(shifted, W(\hFF80, \h0000))
                       ELSE shifted
    IN  \/ SignedAddOverflows(c.pc, full_offset)
        \/ SignedAddOverflows(Add32(c.pc, full_offset), W(0, 2))

\* a move that takes the immediate for a signed byte
thumb_move_immediate_signed(c, instruction) ==
    LET rd == Field16(instruction, 8, 3)
        imm == instruction % 256
    IN  [c EXCEPT !.registers[rd] =
            IF imm >= 128 THEN W(\hFFFF, \hFF00 + imm) ELSE W(0, imm)]

\* opcode 0x4: self.registers[rd] = imm
thumb_move_immediate(c, instruction) ==
    LET rd == Field16(instruction, 8, 3)
        imm == instruction % 256
    IN  [c EXCEPT !.registers[rd] = W(0, imm)]

execute_thumb(c, m, instruction) ==
    LET opcode == Field16(instruction, 11, 5)
    IN  CASE opcode = 28 -> thumb_jump(c, m, thumb_offset(instruction, 11))
          [] opcode \in 26..27 ->
                LET condition == Field16(instruction, 8, 4)
                IN  IF condition # 15 /\ check_condition(c, condition)
                    THEN thumb_jump(c, m, thumb_offset(instruction, 8))
                    ELSE Completed(c, m)
          [] opcode = 30 ->
                Outcome(long_branch_high(c, instruction), m,
                        long_branch_high_overflows(c, instruction), c, m)
          [] opcode = 31 ->
                LET offset_low == instruction % 2048
                    shifted == Shl32(W(0, offset_low), 1)
                    target == Add32(c.lr, shifted)
                IN  Outcome([c EXCEPT !.lr = Or32(c.pc, W(0, 1)), !.pc = target], m,
                            AddOverflows(c.lr, shifted), c, m)
          [] opcode = 4 -> Completed(thumb_move_immediate(c, instruction), m)
          [] OTHER -> Completed(c, m)

(***************************************************************************)
(* Cpu::step.                                                              *)
(***************************************************************************)
\* the instruction word the step fetches at pc
fetch(c, m) ==
    IF c.thumb_mode THEN W(0, read_u16(m, c.pc)) ELSE read_u32(m, c.pc)

\* an addition of the fetch overflows
fetch_overflows(c) ==
    IF c.thumb_mode THEN read_u16_overflows(c.pc) ELSE read_u32_overflows(c.pc)

\* the width of an instruction of the active encoding
instruction_size(c) == IF c.thumb_mode THEN W(0, 2) ELSE W(0, 4)

\* the step's result: an overflow of the fetch or of the pc advance comes first
step_result(c, m, overflow, executed) ==
    IF overflow THEN Overflowed(executed.cpu, executed.memory, c, m) ELSE executed

\* the dispatch of the fetched instruction, pc already advanced
execute(advanced, m, instruction) ==
    IF advanced.thumb_mode
    THEN execute_thumb(advanced, m, Lo(instruction))
    ELSE execute_arm(advanced, m, instruction)

step(c, m) ==
    step_result(c, m,
                fetch_overflows(c) \/ AddOverflows(c.pc, instruction_size(c)),
                execute([c EXCEPT !.pc = Add32(c.pc, instruction_size(c))], m,
                        fetch(c, m)))

(***************************************************************************)
(* The operations as actions.  Each records in `last` what was called,     *)
(* with which inputs, what it returned and the state it was called in.     *)
(* An operation whose arithmetic overflows in a build with overflow checks *)
(* panics: the process is gone and nothing runs after it.                  *)
(***************************************************************************)
\* run_frame has not been called: no loop is running and there is no target
NoFrame == [active |-> FALSE, target_cycles |-> 0, entry_vcount |-> 0]

\* a caller can make a call: the process is alive and no run_frame is running
Running == ~panicked /\ ops < MaxOps /\ ~frame.active

\* what a step records of the operation before it: its name, address and value
NoPrior == [op |-> "none", address |-> Zero32, value |-> Zero32]

Called(op, address, value, ret) ==
    [op |-> op, address |-> address, value |-> value, ret |-> ret,
     cpu |-> cpu, memory |-> memory, prior |-> NoPrior]

NoCall == [op |-> "new", address |-> Zero32, value |-> Zero32, ret |-> Zero32,
           cpu |-> CpuNew, memory |-> MemoryNew, prior |-> NoPrior]

\* a call of a method that takes &self: only its result is new
Reads(op, address, ret, overflow) ==
    /\ Running
    /\ last' = Called(op, address, Zero32, IF overflow_checks /\ overflow THEN Zero32 ELSE ret)
    /\ panicked' = (overflow_checks /\ overflow)
    /\ ops' = ops + 1
    /\ UNCHANGED <<cpu, memory, vcount, cycles, overflow_checks, frame>>

\* a call of a Memory method that takes &mut self
Writes(op, address, value, written, overflow, at_overflow) ==
    /\ Running
    /\ last' = Called(op, address, value, Zero32)
    /\ memory' = IF overflow_checks /\ overflow THEN at_overflow ELSE written
    /\ panicked' = (overflow_checks /\ overflow)
    /\ ops' = ops + 1
    /\ UNCHANGED <<cpu, vcount, cycles, overflow_checks, frame>>

ReadU8(address) ==
    Reads("read_u8", address, W(0, read_u8(memory, address)), FALSE)

ReadU16(address) ==
    Reads("read_u16", address, W(0, read_u16(memory, address)),
          read_u16_overflows(address))

ReadU32(address) ==
    Reads("read_u32", address, read_u32(memory, address), read_u32_overflows(address))

WriteU8(address, value) ==
    Writes("write_u8", address, W(0, value), write_u8(memory, address, value),
           FALSE, memory)

WriteU16(address, value) ==
    Writes("write_u16", address, W(0, value), write_u16(memory, address, value),
           write_u16_overflows(address), write_u8(memory, address, value % 256))

WriteU32(address, value) ==
    Writes("write_u32", address, value, write_u32(memory, address, value),
           write_u32_overflows(address), write_u32_at_overflow(memory, address, value))

\* Cpu::check_condition on the current flags
CheckCondition(condition) ==
    Reads("check_condition", W(0, condition),
          W(0, IF check_condition(cpu, condition) THEN 1 ELSE 0), FALSE)

\* Cpu::step
Steps(r) ==
    /\ Running
    /\ last' = [Called("step", cpu.pc, fetch(cpu, memory), Zero32) EXCEPT
                    !.prior = [op |-> last.op, address |-> last.address,
                               value |-> last.value]]
    /\ cpu' = IF overflow_checks /\ r.overflow THEN r.at_cpu ELSE r.cpu
    /\ memory' = IF overflow_checks /\ r.overflow THEN r.at_memory ELSE r.memory
    /\ panicked' = (overflow_checks /\ r.overflow)
    /\ ops' = ops + 1
    /\ UNCHANGED <<vcount, cycles, overflow_checks, frame>>

CpuStep == Steps(step(cpu, memory))

(***************************************************************************)
(* main.rs: the one-file build of the emulator, with its own Cpu and       *)
(* Memory.  Its read_u8 has no I/O arm, its execute_arm decodes the        *)
(* branch and the move only, and the move takes the low 12 bits of the     *)
(* instruction as they are and stores them without set_register.           *)
(***************************************************************************)
\* Memory::read_u8 of main.rs: the arms of memory.rs without the I/O window
main_read_u8(m, address) ==
    IF InRange(address, W(\h0400, \h0000), W(\h0400, \h03FF))
    THEN \hFF
    ELSE read_u8(m, address)

main_read_u16(m, address) ==
    LET low  == main_read_u8(m, address)
        high == main_read_u8(m, Add32(address, W(0, 1)))
    IN  low + high * 256

main_read_u32(m, address) ==
    LET low  == main_read_u16(m, address)
        high == main_read_u16(m, Add32(address, W(0, 2)))
    IN  W(high, low)

main_fetch(c, m) ==
    IF c.thumb_mode THEN W(0, main_read_u16(m, c.pc)) ELSE main_read_u32(m, c.pc)

\* opcode 0xD of main.rs
main_move(c, instruction) ==
    LET rd == Field(instruction, 12, 4)
        operand == W(0, Field(instruction, 0, 12))
    IN  IF rd < 13 THEN [c EXCEPT !.registers[rd] = operand]
        ELSE IF rd = 15 THEN [c EXCEPT !.pc = operand]
        ELSE c

\* Cpu::execute_arm of main.rs
main_execute_arm(c, m, instruction) ==
    IF ~check_condition(c, Field(instruction, 28, 4))
    THEN Completed(c, m)
    ELSE IF Field(instruction, 25, 3) = 5
    THEN execute_branch(c, m, instruction)
    ELSE IF Field(instruction, 21, 4) = 13
    THEN Completed(main_move(c, instruction), m)
    ELSE Completed(c, m)

main_execute(advanced, m, instruction) ==
    IF advanced.thumb_mode
    THEN execute_thumb(advanced, m, Lo(instruction))
    ELSE main_execute_arm(advanced, m, instruction)

\* Cpu::step of main.rs
main_step(c, m) ==
    step_result(c, m,
                fetch_overflows(c) \/ AddOverflows(c.pc, instruction_size(c)),
                main_execute([c EXCEPT !.pc = Add32(c.pc, instruction_size(c))], m,
                             main_fetch(c, m)))

MainSteps(r) ==
    /\ Running
    /\ last' = Called("main_step", cpu.pc, main_fetch(cpu, memory), Zero32)
    /\ cpu' = IF overflow_checks /\ r.overflow THEN r.at_cpu ELSE r.cpu
    /\ memory' = IF overflow_checks /\ r.overflow THEN r.at_memory ELSE r.memory
    /\ panicked' = (overflow_checks /\ r.overflow)
    /\ ops' = ops + 1
    /\ UNCHANGED <<vcount, cycles, overflow_checks, frame>>

MainStep == MainSteps(main_step(cpu, memory))

(***************************************************************************)
(* Gba: the system from construction.                                      *)
(***************************************************************************)
\* Ppu::step
ppu_step(v) == (v + 1) % 228

\* Gba::step: the CPU step, then the line counter's tick, then the cycle count
GbaSteps(r) ==
    /\ Running
    /\ last' = Called("gba_step", cpu.pc, fetch(cpu, memory), Zero32)
    /\ cpu' = IF overflow_checks /\ r.overflow THEN r.at_cpu ELSE r.cpu
    /\ memory' = IF overflow_checks /\ r.overflow THEN r.at_memory ELSE r.memory
    /\ panicked' = (overflow_checks /\ r.overflow)
    /\ vcount' = IF overflow_checks /\ r.overflow THEN vcount ELSE ppu_step(vcount)
    /\ cycles' = IF overflow_checks /\ r.overflow THEN cycles ELSE cycles + 1
    /\ ops' = ops + 1
    /\ UNCHANGED <<overflow_checks, frame>>

GbaStep == GbaSteps(step(cpu, memory))

\* the steps of one frame: run_frame's `self.cycles + 280_896`
FrameCycles == 280896

\* Gba::run_frame, its entry: target_cycles is set; the call is one operation
RunFrame ==
    /\ Running
    /\ cycles < MaxFrames * FrameCycles
    /\ frame' = [active |-> TRUE, target_cycles |-> cycles + FrameCycles,
                 entry_vcount |-> vcount]
    /\ last' = Called("run_frame", cpu.pc, Zero32, Zero32)
    /\ ops' = ops + 1
    /\ UNCHANGED <<cpu, memory, vcount, cycles, overflow_checks, panicked>>

\* one iteration of run_frame's loop: cycles < target_cycles, and Gba::step
FrameSteps(r) ==
    /\ frame.active
    /\ ~panicked
    /\ cycles < frame.target_cycles
    /\ cpu' = IF overflow_checks /\ r.overflow THEN r.at_cpu ELSE r.cpu
    /\ memory' = IF overflow_checks /\ r.overflow THEN r.at_memory ELSE r.memory
    /\ panicked' = (overflow_checks /\ r.overflow)
    /\ vcount' = IF overflow_checks /\ r.overflow THEN vcount ELSE ppu_step(vcount)
    /\ cycles' = IF overflow_checks /\ r.overflow THEN cycles ELSE cycles + 1
    /\ UNCHANGED <<overflow_checks, last, ops, frame>>

FrameStep == FrameSteps(step(cpu, memory))

\* run_frame returns: the loop's condition is false
FrameReturn ==
    /\ frame.active
    /\ ~panicked
    /\ cycles >= frame.target_cycles
    /\ frame' = [frame EXCEPT !.active = FALSE]
    /\ last' = [last EXCEPT !.ret = W(0, 1)]
    /\ UNCHANGED <<cpu, memory, vcount, cycles, overflow_checks, panicked, ops>>

\* the images a cartridge file can hold: nothing, the one instruction
\* `str sp, [pc, #-12]` (0xE50FD00C), which stores to 0x08000000 when it runs
\* at 0x08000000, and `mov pc, #0x02000000` (0xE3A0F402)
RomImages == {<<>>, <<\h0C, \hD0, \h0F, \hE5>>, <<\h02, \hF4, \hA0, \hE3>>}

\* Memory::load_rom (Gba::load_rom): the file cannot be opened; or it is opened,
\* the image cleared, and the read fails after `got` bytes or delivers the file
LoadRom(image, outcome, got) ==
    /\ Running
    /\ last' = Called("load_rom", Zero32, Zero32,
                      W(0, IF outcome = "ok" THEN 1 ELSE 0))
    /\ memory' = CASE outcome = "open_failed" -> memory
                   [] outcome = "read_failed" ->
                        [memory EXCEPT !.rom = SubSeq(image, 1, got)]
                   [] OTHER -> [memory EXCEPT !.rom = image]
    /\ ops' = ops + 1
    /\ UNCHANGED <<cpu, vcount, cycles, overflow_checks, panicked, frame>>

Init ==
    /\ cpu = CpuNew
    /\ memory = MemoryNew
    /\ vcount = 0
    /\ cycles = 0
    /\ overflow_checks \in BOOLEAN
    /\ panicked = FALSE
    /\ last = NoCall
    /\ ops = 0
    /\ frame = NoFrame

Next ==
    \/ \E image \in RomImages, outcome \in {"open_failed", "read_failed", "ok"} :
        \E got \in 0..Len(image) : LoadRom(image, outcome, got)
    \/ GbaStep

Spec == Init /\ [][Next]_vars

(***************************************************************************)
(* The memory bus: any sequence of reads, writes and CPU steps from reset, *)
(* on a bus with or without a cartridge image.                             *)
(***************************************************************************)
BusAddresses ==
    {W(\h0000, \h0000), W(\h0200, \h0000), W(\h0203, \hFFFE), W(\h0300, \h7FFC),
     W(\h0400, \h0000), W(\h0500, \h0000), W(\h0600, \h0000), W(\h0600, \h8000),
     W(\h0700, \h03FC), W(\h0800, \h0000), W(\h0800, \h0004), W(\h0A00, \h0000),
     W(\hFFFF, \hFFFF)}

BusBytes == {\hA5}

BusHalves == {\hB6C7}

BusWords == {W(\h1234, \h5678)}

\* no image, and the one instruction `str sp, [pc, #-12]`
BusImages == {<<>>, <<\h0C, \hD0, \h0F, \hE5>>}

InitBus ==
    /\ cpu = CpuNew
    /\ \E image \in BusImages : memory = [MemoryNew EXCEPT !.rom = image]
    /\ vcount = 0
    /\ cycles = 0
    /\ overflow_checks \in BOOLEAN
    /\ panicked = FALSE
    /\ last = NoCall
    /\ ops = 0
    /\ frame = NoFrame

NextBus ==
    \/ \E address \in BusAddresses :
        \/ ReadU8(address)
        \/ ReadU16(address)
        \/ ReadU32(address)
        \/ \E value \in BusBytes : WriteU8(address, value)
        \/ \E value \in BusHalves : WriteU16(address, value)
        \/ \E value \in BusWords : WriteU32(address, value)
    \/ CpuStep

SpecBus == InitBus /\ [][NextBus]_vars

(***************************************************************************)
(* The condition evaluator on its own: every flags nibble, with the low 28 *)
(* bits of the flags word as at reset or all set, and every condition.     *)
(***************************************************************************)
FlagWords ==
    {W(nzcv * 4096 + low[1], low[2]) :
        nzcv \in 0..15, low \in {W(0, \h1F), W(\h0FFF, \hFFFF)}}

InitCond ==
    /\ \E flags \in FlagWords : cpu = [CpuNew EXCEPT !.cpsr = flags]
    /\ memory = MemoryNew
    /\ vcount = 0
    /\ cycles = 0
    /\ overflow_checks \in BOOLEAN
    /\ panicked = FALSE
    /\ last = NoCall
    /\ ops = 0
    /\ frame = NoFrame

NextCond == \E condition \in 0..15 : CheckCondition(condition)

SpecCond == InitCond /\ [][NextCond]_vars

(***************************************************************************)
(* The interpreter: steps from the states a program can bring the CPU to.  *)
(* A scenario is a program counter, an encoding mode, one instruction word *)
(* (in Thumb mode: two consecutive instructions) held by memory at the     *)
(* program counter, the flags, and the values of r0, r1 and lr.            *)
(***************************************************************************)
\* a branch: condition, link bit, 24-bit offset field
ArmBranch(cond, link, field) ==
    W(cond * 4096 + 5 * 512 + link * 256 + field \div 65536, field % 65536)

\* a data-processing instruction: the immediate bit, the opcode, rn, rd, and
\* the 12 operand bits
ArmDataProcessing(cond, immediate, opcode, rn, rd, operand2) ==
    W(cond * 4096 + immediate * 512 + opcode * 32 + rn, rd * 4096 + operand2)

\* a single data transfer; bits is the set of the names of the bits that are set
ArmTransfer(cond, bits, rn, rd, offset) ==
    LET bit(name, weight) == IF name \in bits THEN weight ELSE 0
    IN  W(cond * 4096 + 1024 + bit("register", 512) + bit("pre", 256)
            + bit("up", 128) + bit("byte", 64) + bit("writeback", 32)
            + bit("load", 16) + rn,
          rd * 4096 + offset)

\* the bytes of a word, least significant first
WordBytes(word) ==
    <<Lo(word) % 256, Lo(word) \div 256, Hi(word) % 256, Hi(word) \div 256>>

\* memory holding `word` at address `pc`: in a cartridge image loaded for it,
\* or stored to RAM; an address that holds nothing keeps what it reads
Holding(pc, word) ==
    IF InRange(pc, W(\h0800, \h0000), W(\h0800, \h00FF))
    THEN [MemoryNew EXCEPT
            !.rom = [i \in 1..Lo(pc) |-> 0] \o WordBytes(word)]
    ELSE write_u32(MemoryNew, pc, word)

Scenario(pc, thumb, instruction, flags, r0, r1, lr) ==
    [pc |-> pc, thumb |-> thumb, instruction |-> instruction, flags |-> flags,
     r0 |-> r0, r1 |-> r1, lr |-> lr]

FlagsAtReset == W(0, \h1F)

RomBase == W(\h0800, \h0000)

BranchScenarios ==
    {Scenario(pc, FALSE, ArmBranch(cond, link, field), flags, Zero32, Zero32, W(0, \h0100)) :
        pc \in {RomBase, W(\h0800, \h0010), W(\h0200, \h0000), W(\h0300, \h7FFC)},
        cond \in {14, 0, 11},
        link \in {0, 1},
        field \in {\h000001, \h000000, \h7FFFFF, \h800000, \hFFFFFF, \hFFFFFE},
        flags \in {FlagsAtReset, W(\h4000, \h1F), W(\h8000, \h1F)}}

CompareValues ==
    {W(0, 5), W(0, 0), W(0, 4), W(\h8000, 0), W(\hFFFF, \hFFFF), W(\hFF00, 0)}

CompareScenarios ==
    {Scenario(pc, FALSE, ArmDataProcessing(14, 1, 10, rn, 0, operand2), flags,
              r0, W(0, 1), Zero32) :
        pc \in {RomBase, W(\h0200, \h0000)},
        rn \in {0, 15},
        operand2 \in {\h005, \h000, \h4FF, \h101},
        flags \in {FlagsAtReset, W(\hF000, \h1F), W(\h9ABC, \hDEF0)},
        r0 \in CompareValues}
    \cup
    {Scenario(RomBase, FALSE, ArmDataProcessing(cond, 0, 10, 0, 0, rm), flags,
              r0, r1, Zero32) :
        cond \in {14, 1},
        rm \in {1, 0, 15},
        flags \in {FlagsAtReset, W(\hF000, \h1F)},
        r0 \in CompareValues,
        r1 \in CompareValues}

MoveScenarios ==
    {Scenario(RomBase, FALSE, ArmDataProcessing(14, 1, 13, 0, 3, operand2),
              FlagsAtReset, Zero32, Zero32, Zero32) :
        operand2 \in 0..4095}
    \cup
    {Scenario(pc, FALSE, ArmDataProcessing(cond, 1, 13, rn, rd, operand2), flags,
              W(0, 7), W(0, 9), W(0, \h0100)) :
        pc \in {RomBase, W(\h0200, \h0000)},
        cond \in {14, 0},
        rn \in {0, 15},
        rd \in {0, 3, 12, 13, 14, 15},
        operand2 \in {\h02A, \h003, \h4FF, \hFFF, \h1FE},
        flags \in {W(\h4000, \h1F), W(\hF000, \h1F)}}
    \cup
    {Scenario(RomBase, FALSE, ArmDataProcessing(14, 0, 13, 0, rd, rm),
              FlagsAtReset, W(\h1234, \h5677), W(0, 9), Zero32) :
        rd \in {1, 15}, rm \in {0, 15}}

ArithmeticScenarios ==
    {Scenario(RomBase, FALSE, ArmDataProcessing(14, immediate, opcode, rn, rd, operand2),
              FlagsAtReset, r0, W(0, 3), Zero32) :
        immediate \in {0, 1},
        opcode \in {4, 2, 0},
        rn \in {0, 15},
        rd \in {2, 15},
        operand2 \in {\h001, \h00F},
        r0 \in {W(0, 5), W(\hFFFF, \hFFFF)}}

TransferBits == SUBSET {"pre", "up", "byte", "writeback", "load"}

TransferScenarios ==
    {Scenario(RomBase, FALSE, ArmTransfer(14, bits, rn, rd, offset), FlagsAtReset,
              r0, W(\h0300, \h0010), Zero32) :
        bits \in TransferBits,
        rn \in {0, 1},
        rd \in {1, 2},
        offset \in {1, 4},
        r0 \in {Zero32, W(\h0200, \h0000), W(\hFFFF, \hFFFE)}}
    \cup
    {Scenario(RomBase, FALSE, ArmTransfer(14, {"register", "up", "pre", "load"}, 0, 2, 4),
              FlagsAtReset, RomBase, Zero32, Zero32)}

\* Thumb: the unconditional and conditional branches, the two halves of the
\* long branch with link, the move, and an undecoded format, each followed by
\* the low half of a long branch with link
ThumbScenarios ==
    {Scenario(pc, TRUE, W(second, first), flags, Zero32, Zero32, lr) :
        pc \in {RomBase, W(\h0200, \h0000)},
        first \in {\hE001, \hE400, \hE3FF, \hE7FF, \hE000, \hD001, \hD1FE, \hDF01,
                   \hF001, \hF400, \hF3FF, \hF7FF, \hF000, \hF801, \hFFFF, \h227F,
                   \h0000},
        second \in {\hF801, \hFFFF, \hF800},
        flags \in {FlagsAtReset, W(\h4000, \h1F)},
        lr \in {Zero32, W(\hFFFF, \hFFFF)}}

\* Thumb: the move of every immediate into every low register
ThumbMoveScenarios ==
    {Scenario(RomBase, TRUE, W(\hF801, \h2000 + r * 256 + i), flags,
              W(\h1111, \h2222), W(\h3333, \h4444), W(0, \h0100)) :
        r \in 0..7, i \in 0..255, flags \in {FlagsAtReset, W(\hF000, \h1F)}}

\* every register index as the operand of a move (rm) and as the source of an
\* add, a subtract and a compare (rn), at two program counters
OperandScenarios ==
    {Scenario(pc, FALSE, ArmDataProcessing(14, 0, 13, 0, 2, rm), FlagsAtReset,
              W(\h1111, \h2222), W(\h3333, \h4444), W(0, \h0100)) :
        pc \in {W(\h0800, \h000C), W(\h0800, \h0010)}, rm \in 0..15}
    \cup
    {Scenario(pc, FALSE, ArmDataProcessing(14, 1, opcode, rn, 2, operand2), FlagsAtReset,
              W(\h1111, \h2222), W(\h3333, \h4444), W(0, \h0100)) :
        pc \in {W(\h0800, \h000C), W(\h0800, \h0010)},
        opcode \in {4, 2, 10},
        rn \in 0..15,
        operand2 \in {\h000, \h003}}

\* transfers through sp, lr and the program counter, and loads into the
\* program counter
RegisterTransferScenarios ==
    {Scenario(RomBase, FALSE, ArmTransfer(14, bits, rn, rd, offset), FlagsAtReset,
              W(\h0200, \h0000), W(\h0300, \h0010), W(\h0300, \h0020)) :
        bits \in TransferBits,
        rn \in {13, 14, 15},
        rd \in {2, 14},
        offset \in {4, 3}}
    \cup
    {Scenario(RomBase, FALSE, ArmTransfer(14, bits \cup {"load"}, rn, 15, offset),
              FlagsAtReset, W(\h0800, \h0001), W(\h0300, \h0010), Zero32) :
        bits \in SUBSET {"pre", "up", "byte"},
        rn \in {0, 15},
        offset \in {8, 11, 12, 0}}

\* every kind of instruction under a condition that fails or passes
PredicatedScenarios ==
    {Scenario(RomBase, FALSE, instruction, flags, W(\h0200, \h0000), W(0, 9), Zero32) :
        instruction \in
            {ArmTransfer(cond, bits, 0, 1, 4) :
                cond \in {0, 1, 10, 15},
                bits \in {{"pre", "up"}, {"up", "load"}, {"pre", "up", "writeback", "byte"}}}
            \cup
            {ArmDataProcessing(cond, 1, opcode, 0, rd, \h003) :
                cond \in {0, 1, 10, 15}, opcode \in {13, 4, 2, 10, 0}, rd \in {1, 15}}
            \cup
            {ArmBranch(cond, link, \h000001) : cond \in {0, 1, 10, 15}, link \in {0, 1}},
        flags \in {FlagsAtReset, W(\h4000, \h1F), W(\h9000, \h1F)}}

\* the ends of the address space and of the cartridge window, where nothing
\* can be stored
EdgeScenarios ==
    {Scenario(pc, thumb, Zero32, FlagsAtReset, Zero32, Zero32, Zero32) :
        pc \in {W(\hFFFF, \hFFFC), W(\hFFFF, \hFFFE), W(\hFFFF, \hFFFF),
                W(\h0A00, \h0000), W(\h0000, \h0000), W(\h7FFF, \hFFFC)},
        thumb \in BOOLEAN}

Scenarios ==
    BranchScenarios \cup CompareScenarios \cup MoveScenarios \cup ArithmeticScenarios
        \cup TransferScenarios \cup ThumbScenarios \cup EdgeScenarios
        \cup ThumbMoveScenarios \cup OperandScenarios \cup RegisterTransferScenarios
        \cup PredicatedScenarios

InitCpu ==
    /\ \E scenario \in Scenarios :
        /\ cpu = [CpuNew EXCEPT
                    !.pc = scenario.pc,
                    !.thumb_mode = scenario.thumb,
                    !.cpsr = scenario.flags,
                    !.lr = scenario.lr,
                    !.registers = [i \in 0..12 |->
                        CASE i = 0 -> scenario.r0
                          [] i = 1 -> scenario.r1
                          [] OTHER -> W(i, i)]]
        /\ memory = Holding(scenario.pc, scenario.instruction)
    /\ vcount = 0
    /\ cycles = 0
    /\ overflow_checks \in BOOLEAN
    /\ panicked = FALSE
    /\ last = NoCall
    /\ ops = 0
    /\ frame = NoFrame

NextCpu == CpuStep

SpecCpu == InitCpu /\ [][NextCpu]_vars

(***************************************************************************)
(* The interpreter of main.rs, from the same states.                       *)
(***************************************************************************)
NextMain == MainStep

SpecMain == InitCpu /\ [][NextMain]_vars

(***************************************************************************)
(* The address space layout, as the specification states it: each window   *)
(* is <<first address, last address>>.                                     *)
(***************************************************************************)
BootRomWindow == <<W(\h0000, \h0000), W(\h0000, \h3FFF)>>

ExternalWorkRamWindow == <<W(\h0200, \h0000), W(\h0203, \hFFFF)>>

InternalWorkRamWindow == <<W(\h0300, \h0000), W(\h0300, \h7FFF)>>

IoWindow == <<W(\h0400, \h0000), W(\h0400, \h03FF)>>

PaletteRamWindow == <<W(\h0500, \h0000), W(\h0500, \h03FF)>>

VideoRamWindow == <<W(\h0600, \h0000), W(\h0601, \h7FFF)>>

ObjectAttributeRamWindow == <<W(\h0700, \h0000), W(\h0700, \h03FF)>>

CartridgeWindow == <<W(\h0800, \h0000), W(\h09FF, \hFFFF)>>

WritableWindows ==
    {ExternalWorkRamWindow, InternalWorkRamWindow, PaletteRamWindow, VideoRamWindow,
     ObjectAttributeRamWindow}

MappedWindows ==
    WritableWindows \cup {BootRomWindow, IoWindow, CartridgeWindow}

InWindow(address, window) == InRange(address, window[1], window[2])

\* the addresses of the n bytes of an access at address
AccessBytes(address, n) == {Add32(address, W(0, i)) : i \in 0..(n - 1)}

\* the access lies within one writable window
WithinOneWritable(address, n) ==
    \E window \in WritableWindows :
        \A a \in AccessBytes(address, n) : InWindow(a, window)

\* no buffer byte backs the address
Unbacked(m, address) ==
    \/ \A window \in MappedWindows : ~InWindow(address, window)
    \/ /\ InWindow(address, CartridgeWindow)
       /\ AsUsize(Sub32(address, CartridgeWindow[1])) >= Len(m.rom)

\* the address is outside the five writable windows
NotWritable(address) == \A window \in WritableWindows : ~InWindow(address, window)

AccessSize(op) ==
    CASE op \in {"read_u8", "write_u8"} -> 1
      [] op \in {"read_u16", "write_u16"} -> 2
      [] op \in {"read_u32", "write_u32"} -> 4
      [] OTHER -> 0

ReadOps == {"read_u8", "read_u16", "read_u32"}

WriteOps == {"write_u8", "write_u16", "write_u32"}

\* the value a read of the width of `op` returns, as a word
ReadAs(op, m, address) ==
    CASE AccessSize(op) = 1 -> W(0, read_u8(m, address))
      [] AccessSize(op) = 2 -> W(0, read_u16(m, address))
      [] OTHER -> read_u32(m, address)

(***************************************************************************)
(* C1: for every condition code 0..15 and every combination of N, Z, C, V  *)
(* the condition evaluator returns the truth table's value, whatever bits  *)
(* 27..0 of the flags word are.                                            *)
(***************************************************************************)
TruthTable(condition, n, z, c, v) ==
    CASE condition = 0 -> z
      [] condition = 1 -> ~z
      [] condition = 2 -> c
      [] condition = 3 -> ~c
      [] condition = 4 -> n
      [] condition = 5 -> ~n
      [] condition = 6 -> v
      [] condition = 7 -> ~v
      [] condition = 8 -> c /\ ~z
      [] condition = 9 -> ~c \/ z
      [] condition = 10 -> (n <=> v)
      [] condition = 11 -> ~(n <=> v)
      [] condition = 12 -> ~z /\ (n <=> v)
      [] condition = 13 -> z \/ ~(n <=> v)
      [] condition = 14 -> TRUE
      [] condition = 15 -> FALSE

FlagN(cpsr) == (Hi(cpsr) \div 32768) % 2 = 1

FlagZ(cpsr) == (Hi(cpsr) \div 16384) % 2 = 1

FlagC(cpsr) == (Hi(cpsr) \div 8192) % 2 = 1

FlagV(cpsr) == (Hi(cpsr) \div 4096) % 2 = 1

C1_ConditionTable ==
    last.op = "check_condition" =>
        (last.ret = W(0, 1)) =
            TruthTable(Lo(last.address), FlagN(cpu.cpsr), FlagZ(cpu.cpsr),
                       FlagC(cpu.cpsr), FlagV(cpu.cpsr))

\* GT evaluated true with N and V both set and the low 28 bits all set
C1_Witness ==
    /\ last.op = "check_condition"
    /\ last.address = W(0, 12)
    /\ last.ret = W(0, 1)
    /\ cpu.cpsr = W(\h9FFF, \hFFFF)

(***************************************************************************)
(* C2: a write to an address of a writable region, the access within that  *)
(* one region, followed by a read of the same width at the same address,   *)
(* returns the value written, from any memory state.                       *)
(***************************************************************************)
C2_WriteReadRoundTrip ==
    (/\ last.op \in WriteOps
     /\ ~panicked
     /\ WithinOneWritable(last.address, AccessSize(last.op)))
        => ReadAs(last.op, memory, last.address) = last.value

\* a word written over other non-zero content of video RAM reads back
C2_Witness ==
    /\ last.op = "write_u32"
    /\ last.address = W(\h0600, \h8000)
    /\ read_u8(last.memory, last.address) = \hA5
    /\ read_u32(memory, last.address) = W(\h1234, \h5678)

(***************************************************************************)
(* C3: a read none of whose bytes is backed by a buffer byte (an address   *)
(* outside every mapped window, or a cartridge address at or beyond the    *)
(* image length) returns 0xFF, 0xFFFF or 0xFFFFFFFF, and no read changes   *)
(* any state.                                                              *)
(***************************************************************************)
AllOnes(n) ==
    CASE n = 1 -> W(0, \hFF)
      [] n = 2 -> W(0, \hFFFF)
      [] OTHER -> W(\hFFFF, \hFFFF)

C3_UnbackedReadsSentinel ==
    last.op \in ReadOps =>
        /\ memory = last.memory
        /\ cpu = last.cpu
        /\ (\A a \in AccessBytes(last.address, AccessSize(last.op)) :
                Unbacked(last.memory, a))
              => (~panicked /\ last.ret = AllOnes(AccessSize(last.op)))

\* a word read just past the end of a loaded four-byte image
C3_Witness ==
    /\ last.op = "read_u32"
    /\ last.address = W(\h0800, \h0004)
    /\ Len(memory.rom) = 4
    /\ last.ret = W(\hFFFF, \hFFFF)

(***************************************************************************)
(* C4: a write none of whose bytes lies in a writable window leaves every  *)
(* backing buffer as it was, so a read of the same address returns what it *)
(* returned before; and no write and no CPU step changes the boot ROM or   *)
(* the cartridge image.                                                    *)
(***************************************************************************)
C4_DiscardedWrites ==
    /\ (/\ last.op \in WriteOps
        /\ \A a \in AccessBytes(last.address, AccessSize(last.op)) : NotWritable(a))
          => /\ memory = last.memory
             /\ ReadAs(last.op, memory, last.address)
                    = ReadAs(last.op, last.memory, last.address)
    /\ last.op \in WriteOps \cup {"step"}
          => /\ memory.rom = last.memory.rom
             /\ memory.bios = last.memory.bios

\* a word write to the start of a loaded cartridge image
C4_Witness ==
    /\ last.op = "write_u32"
    /\ last.address = W(\h0800, \h0000)
    /\ Len(memory.rom) = 4
    /\ read_u32(memory, last.address) = W(\hE50F, \hD00C)

(***************************************************************************)
(* C5: for every region of size S = 2^k at base B, a read at B + S equals  *)
(* the same read at B.                                                     *)
(***************************************************************************)
\* <<base, base + size>> of the boot ROM, the two work RAMs, palette RAM and OAM
MirroredRegions ==
    {<<W(\h0000, \h0000), W(\h0000, \h4000)>>,
     <<W(\h0200, \h0000), W(\h0204, \h0000)>>,
     <<W(\h0300, \h0000), W(\h0300, \h8000)>>,
     <<W(\h0500, \h0000), W(\h0500, \h0400)>>,
     <<W(\h0700, \h0000), W(\h0700, \h0400)>>}

C5_RegionsMirrored ==
    \A region \in MirroredRegions :
        /\ read_u8(memory, region[2]) = read_u8(memory, region[1])
        /\ read_u16(memory, region[2]) = read_u16(memory, region[1])
        /\ read_u32(memory, region[2]) = read_u32(memory, region[1])

(***************************************************************************)
(* What the last step was, read off the instruction word it fetched and    *)
(* the state it ran in.                                                    *)
(***************************************************************************)
\* the fetched condition field holds of the flags before the step
ConditionPassed ==
    TruthTable(Field(last.value, 28, 4), FlagN(last.cpu.cpsr), FlagZ(last.cpu.cpsr),
               FlagC(last.cpu.cpsr), FlagV(last.cpu.cpsr))

ArmStepped == last.op = "step" /\ ~last.cpu.thumb_mode

ArmBranchExecuted ==
    ArmStepped /\ ConditionPassed /\ Field(last.value, 25, 3) = 5

ArmDataProcessingExecuted(opcode) ==
    /\ ArmStepped
    /\ ConditionPassed
    /\ Field(last.value, 25, 3) # 5
    /\ Field(last.value, 26, 2) # 1
    /\ Field(last.value, 21, 4) = opcode

\* signext24(field) << 2, modulo 2^32
BranchDisplacement(field) ==
    IF field >= 8388608
    THEN Neg32(U32((16777216 - field) * 4))
    ELSE U32(field * 4)

\* P + 4 + (signext24(field) << 2) modulo 2^32
BranchTargetClaimed(P, field) ==
    Add32(Add32(P, W(0, 4)), BranchDisplacement(field))

\* P + 8 + (signext24(field) << 2) modulo 2^32
BranchTarget(P, field) ==
    Add32(Add32(P, W(0, 8)), BranchDisplacement(field))

BranchField == (Hi(last.value) % 256) * 65536 + Lo(last.value)

\* the 8-bit immediate rotated right by twice the rotate field
RotatedImmediate(imm, rot) ==
    IF rot = 0 THEN W(0, imm)
    ELSE IF rot <= 8
    THEN W((imm * (2 ^ (16 - 2 * rot))) % 65536, imm \div (2 ^ (2 * rot)))
    ELSE U32(imm * (2 ^ (32 - 2 * rot)))

\* the value an instruction fetched at P reads from register index reg
OperandValue(reg, P) ==
    CASE reg \in 0..12 -> last.cpu.registers[reg]
      [] reg = 13 -> last.cpu.sp
      [] reg = 14 -> last.cpu.lr
      [] reg = 15 -> Add32(P, W(0, 12))

\* the second operand of the data-processing instruction last fetched
SecondOperand ==
    IF Field(last.value, 25, 1) = 1
    THEN RotatedImmediate(Lo(last.value) % 256, Field(last.value, 8, 4))
    ELSE OperandValue(Lo(last.value) % 16, last.address)

GeneralRegistersKept(except) ==
    \A i \in (0..12) \ except : cpu.registers[i] = last.cpu.registers[i]

(***************************************************************************)
(* C6: a step always completes, whatever the CPU state, the memory content *)
(* and the fetched instruction word.                                       *)
(***************************************************************************)
C6_StepAlwaysCompletes == last.op = "step" => ~panicked

(***************************************************************************)
(* C7, as claimed: an ARM branch with link bit 0 and a passing condition,  *)
(* fetched at P with offset field f, leaves                                *)
(* pc = P + 4 + (signext24(f) << 2) modulo 2^32.                           *)
(***************************************************************************)
C7_ArmBranchAsClaimed ==
    (ArmBranchExecuted /\ Field(last.value, 24, 1) = 0) =>
        /\ ~panicked
        /\ cpu.pc = BranchTargetClaimed(last.address, BranchField)

(***************************************************************************)
(* C7, amended: an ARM branch with link bit 0 and a passing condition,     *)
(* fetched at P with offset field f, leaves                                *)
(* pc = P + 8 + (signext24(f) << 2) modulo 2^32 (the offset and 4 are      *)
(* added to the pc the fetch has already advanced by 4), and changes no    *)
(* general-purpose register, sp, lr or flag.                               *)
(***************************************************************************)
C7_ArmBranch ==
    (ArmBranchExecuted /\ Field(last.value, 24, 1) = 0) =>
        /\ ~panicked
        /\ cpu.pc = BranchTarget(last.address, BranchField)
        /\ cpu.registers = last.cpu.registers
        /\ cpu.sp = last.cpu.sp
        /\ cpu.lr = last.cpu.lr
        /\ cpu.cpsr = last.cpu.cpsr

\* 0xEA000001 at 0x08000000 leaves pc = 0x0800000C
C7_Witness ==
    /\ last.op = "step"
    /\ last.address = W(\h0800, \h0000)
    /\ last.value = W(\hEA00, \h0001)
    /\ cpu.pc = W(\h0800, \h000C)

(***************************************************************************)
(* C8: an ARM branch with link bit 1 and a passing condition, fetched at   *)
(* P, sets lr to P + 4 and otherwise behaves like the branch without link  *)
(* (pc becomes what that branch makes it, nothing else changes); with link *)
(* bit 0 it leaves lr unchanged.                                           *)
(***************************************************************************)
C8_ArmBranchWithLink ==
    ArmBranchExecuted =>
        IF Field(last.value, 24, 1) = 1
        THEN /\ ~panicked
             /\ cpu.lr = Add32(last.address, W(0, 4))
             /\ cpu.pc = BranchTarget(last.address, BranchField)
             /\ cpu.registers = last.cpu.registers
             /\ cpu.sp = last.cpu.sp
             /\ cpu.cpsr = last.cpu.cpsr
        ELSE cpu.lr = last.cpu.lr

\* 0xEB000001 at 0x08000000 leaves lr = 0x08000004
C8_Witness ==
    /\ last.op = "step"
    /\ last.address = W(\h0800, \h0000)
    /\ last.value = W(\hEB00, \h0001)
    /\ last.cpu.lr = W(0, \h0100)
    /\ cpu.lr = W(\h0800, \h0004)
    /\ cpu.pc = W(\h0800, \h000C)

(***************************************************************************)
(* C9: ARM compare of source s (register rn) with operand o sets Z iff     *)
(* s - o = 0, N to bit 31 of s - o, C iff s >= o unsigned, and clears V,   *)
(* whatever the four bits were; bits 27..0 of the flags word and every     *)
(* register other than pc are unchanged.                                   *)
(***************************************************************************)
C9_Compare ==
    ArmDataProcessingExecuted(10) =>
        /\ ~panicked
        /\ FlagZ(cpu.cpsr) =
              (OperandValue(Field(last.value, 16, 4), last.address) = SecondOperand)
        /\ FlagN(cpu.cpsr) =
              Bit31(Sub32(OperandValue(Field(last.value, 16, 4), last.address),
                          SecondOperand))
        /\ FlagC(cpu.cpsr) =
              Le32(SecondOperand, OperandValue(Field(last.value, 16, 4), last.address))
        /\ ~FlagV(cpu.cpsr)
        /\ Hi(cpu.cpsr) % 4096 = Hi(last.cpu.cpsr) % 4096
        /\ Lo(cpu.cpsr) = Lo(last.cpu.cpsr)
        /\ GeneralRegistersKept({})
        /\ cpu.sp = last.cpu.sp
        /\ cpu.lr = last.cpu.lr

\* cmp r0, #5 with r0 = 5 and all four bits set before: Z and C set, N and V clear
C9_Witness ==
    /\ last.op = "step"
    /\ last.value = W(\hE340, \h0005)
    /\ last.cpu.registers[0] = W(0, 5)
    /\ last.cpu.cpsr = W(\hF000, \h1F)
    /\ cpu.cpsr = W(\h6000, \h1F)

(***************************************************************************)
(* C10: ARM move with the immediate bit set writes to rd the 8-bit         *)
(* immediate rotated right by twice the rotate field, for every rotate     *)
(* field and immediate, and leaves the flags word and every register other *)
(* than rd and pc unchanged.  A write to index 15 is the register file's   *)
(* write of the program counter, which clears the two low bits.            *)
(***************************************************************************)
C10_MoveImmediate ==
    (ArmDataProcessingExecuted(13) /\ Field(last.value, 25, 1) = 1) =>
        /\ ~panicked
        /\ CASE Field(last.value, 12, 4) \in 0..12 ->
                    cpu.registers[Field(last.value, 12, 4)] = SecondOperand
             [] Field(last.value, 12, 4) = 13 -> cpu.sp = SecondOperand
             [] Field(last.value, 12, 4) = 14 -> cpu.lr = SecondOperand
             [] Field(last.value, 12, 4) = 15 ->
                    cpu.pc = W(Hi(SecondOperand), Lo(SecondOperand) - (Lo(SecondOperand) % 4))
        /\ cpu.cpsr = last.cpu.cpsr
        /\ GeneralRegistersKept({Field(last.value, 12, 4)})
        /\ Field(last.value, 12, 4) # 13 => cpu.sp = last.cpu.sp
        /\ Field(last.value, 12, 4) # 14 => cpu.lr = last.cpu.lr

\* mov r3, #0x2A
C10_Witness ==
    /\ last.op = "step"
    /\ last.value = W(\hE3A0, \h302A)
    /\ last.cpu.registers[3] = W(3, 3)
    /\ cpu.registers[3] = W(0, \h2A)

(***************************************************************************)
(* C11: a data-processing instruction that reads register 15 as an operand *)
(* (as rn, or as the register operand rm) observes pc + 8, pc being the    *)
(* program counter's value while the instruction executes; it observes     *)
(* 0x08000018 when that value is 0x08000010.  Indices 0..12, 13 and 14     *)
(* read the stored value of the register, sp and lr.                       *)
(***************************************************************************)
\* the program counter while the fetched instruction executes
ExecutingPc == Add32(last.address, W(0, 4))

\* the value the last instruction observes in register index reg
Observed(reg) ==
    CASE reg \in 0..12 -> last.cpu.registers[reg]
      [] reg = 13 -> last.cpu.sp
      [] reg = 14 -> last.cpu.lr
      [] reg = 15 -> Add32(ExecutingPc, W(0, 8))

\* the second operand, a register read through Observed
ObservedOperand ==
    IF Field(last.value, 25, 1) = 1
    THEN RotatedImmediate(Lo(last.value) % 256, Field(last.value, 8, 4))
    ELSE Observed(Lo(last.value) % 16)

C11_ProgramCounterOperand ==
    /\ (ArmDataProcessingExecuted(13) /\ Field(last.value, 12, 4) \in 0..12) =>
          /\ ~panicked
          /\ cpu.registers[Field(last.value, 12, 4)] = ObservedOperand
    /\ (ArmDataProcessingExecuted(4) /\ Field(last.value, 12, 4) \in 0..12) =>
          /\ ~panicked
          /\ cpu.registers[Field(last.value, 12, 4)] =
                Add32(Observed(Field(last.value, 16, 4)), ObservedOperand)
    /\ (ArmDataProcessingExecuted(2) /\ Field(last.value, 12, 4) \in 0..12) =>
          /\ ~panicked
          /\ cpu.registers[Field(last.value, 12, 4)] =
                Sub32(Observed(Field(last.value, 16, 4)), ObservedOperand)
    /\ ArmDataProcessingExecuted(10) =>
          /\ ~panicked
          /\ FlagZ(cpu.cpsr) = (Observed(Field(last.value, 16, 4)) = ObservedOperand)
          /\ FlagC(cpu.cpsr) = Le32(ObservedOperand, Observed(Field(last.value, 16, 4)))

\* mov r2, pc executing with the program counter at 0x08000010
C11_Witness ==
    /\ last.op = "step"
    /\ last.value = W(\hE1A0, \h200F)
    /\ ExecutingPc = W(\h0800, \h0010)
    /\ cpu.registers[2] = W(\h0800, \h0018)

(***************************************************************************)
(* The last single data transfer, read off the instruction word: the base, *)
(* the 12-bit immediate offset added or subtracted, the address accessed   *)
(* and the value a load reads there.                                       *)
(***************************************************************************)
TransferExecuted ==
    /\ ArmStepped
    /\ ConditionPassed
    /\ Field(last.value, 25, 3) # 5
    /\ Field(last.value, 26, 2) = 1

TransferBit(n) == Field(last.value, n, 1) = 1

TransferRn == Field(last.value, 16, 4)

TransferRd == Field(last.value, 12, 4)

TransferBase == Observed(TransferRn)

\* base + offset (up bit set) or base - offset (up bit clear), modulo 2^32
TransferDisplaced ==
    IF TransferBit(23)
    THEN Add32(TransferBase, W(0, Field(last.value, 0, 12)))
    ELSE Sub32(TransferBase, W(0, Field(last.value, 0, 12)))

EffectiveAddress == IF TransferBit(24) THEN TransferDisplaced ELSE TransferBase

\* the byte zero-extended, or the little-endian word, at the effective address
LoadedValue ==
    IF TransferBit(22)
    THEN W(0, read_u8(last.memory, EffectiveAddress))
    ELSE read_u32(last.memory, EffectiveAddress)

\* the transfer also writes its base register
BaseWritten == ~TransferBit(24) \/ TransferBit(21)

(***************************************************************************)
(* C12: every write of a value v to register index 15 by a data-processing *)
(* or load instruction stores v with its two low bits cleared, in either   *)
(* build of the interpreter (cpu.rs and main.rs); writes to indices 0..14  *)
(* store v verbatim.                                                       *)
(***************************************************************************)
\* the last step, of the main.rs build, executed a move of an unrotated
\* immediate, which both builds take for the same value
MainMoveExecuted ==
    /\ last.op = "main_step"
    /\ ~last.cpu.thumb_mode
    /\ ConditionPassed
    /\ Field(last.value, 25, 3) # 5
    /\ Field(last.value, 21, 4) = 13
    /\ Field(last.value, 25, 1) = 1
    /\ Field(last.value, 8, 4) = 0

WordAligned(v) == W(Hi(v), Lo(v) - (Lo(v) % 4))

\* the value register index reg holds after the last step
Stored(reg) ==
    CASE reg \in 0..12 -> cpu.registers[reg]
      [] reg = 13 -> cpu.sp
      [] reg = 14 -> cpu.lr
      [] reg = 15 -> cpu.pc

C12_Register15WriteMasked ==
    /\ (MainMoveExecuted /\ Field(last.value, 12, 4) = 15) =>
          cpu.pc = WordAligned(W(0, Lo(last.value) % 256))
    /\ ArmDataProcessingExecuted(13) =>
          Stored(Field(last.value, 12, 4)) =
              IF Field(last.value, 12, 4) = 15
              THEN WordAligned(ObservedOperand)
              ELSE ObservedOperand
    /\ (ArmDataProcessingExecuted(4) /\ ~panicked) =>
          Stored(Field(last.value, 12, 4)) =
              IF Field(last.value, 12, 4) = 15
              THEN WordAligned(Add32(Observed(Field(last.value, 16, 4)), ObservedOperand))
              ELSE Add32(Observed(Field(last.value, 16, 4)), ObservedOperand)
    /\ (/\ TransferExecuted
        /\ ~panicked
        /\ TransferBit(20)
        /\ Field(last.value, 25, 1) = 0
        /\ ~(BaseWritten /\ TransferRn = TransferRd)) =>
          Stored(TransferRd) =
              IF TransferRd = 15 THEN WordAligned(LoadedValue) ELSE LoadedValue

(***************************************************************************)
(* What the last Thumb step was.                                           *)
(***************************************************************************)
ThumbStepped == last.op = "step" /\ last.cpu.thumb_mode

\* bits 15..11 of the 16-bit instruction last fetched
ThumbOpcode == Lo(last.value) \div 2048

\* signext11(field) << 1, modulo 2^32
ThumbDisplacement(field) ==
    IF field >= 1024 THEN Neg32(W(0, (2048 - field) * 2)) ELSE W(0, field * 2)

(***************************************************************************)
(* C13, as claimed: a Thumb unconditional branch fetched at pc_before with *)
(* offset field f leaves pc = pc_before + 2 + (signext11(f) << 1) modulo   *)
(* 2^32.                                                                   *)
(***************************************************************************)
C13_ThumbBranchAsClaimed ==
    (ThumbStepped /\ ThumbOpcode = 28) =>
        /\ ~panicked
        /\ cpu.pc = Add32(Add32(last.address, W(0, 2)),
                          ThumbDisplacement(Lo(last.value) % 2048))

(***************************************************************************)
(* C13, amended: a Thumb unconditional branch fetched at pc_before with    *)
(* offset field f leaves pc = pc_before + 4 + (signext11(f) << 1) modulo   *)
(* 2^32: the fetch advance of 2, the shifted offset, and the constant 2.   *)
(***************************************************************************)
C13_ThumbBranch ==
    (ThumbStepped /\ ThumbOpcode = 28) =>
        /\ ~panicked
        /\ cpu.pc = Add32(Add32(last.address, W(0, 4)),
                          ThumbDisplacement(Lo(last.value) % 2048))

\* 0xE001 at 0x08000000 leaves pc = 0x08000006
C13_Witness ==
    /\ last.op = "step"
    /\ last.cpu.thumb_mode
    /\ last.address = W(\h0800, \h0000)
    /\ Lo(last.value) = \hE001
    /\ cpu.pc = W(\h0800, \h0006)

(***************************************************************************)
(* C14: the Thumb move of an 8-bit immediate i into low register r sets    *)
(* general-purpose register r to i zero-extended, for every r in 0..7 and  *)
(* every i, and leaves the flags word, every other general-purpose         *)
(* register, sp and lr unchanged.                                          *)
(***************************************************************************)
C14_ThumbMoveImmediate ==
    (ThumbStepped /\ ThumbOpcode = 4) =>
        /\ ~panicked
        /\ cpu.registers[(Lo(last.value) \div 256) % 8] = W(0, Lo(last.value) % 256)
        /\ GeneralRegistersKept({(Lo(last.value) \div 256) % 8})
        /\ cpu.cpsr = last.cpu.cpsr
        /\ cpu.sp = last.cpu.sp
        /\ cpu.lr = last.cpu.lr

\* 0x227F sets register 2, which held something else, to 0x7F
C14_Witness ==
    /\ last.op = "step"
    /\ last.cpu.thumb_mode
    /\ Lo(last.value) = \h227F
    /\ last.cpu.registers[2] = W(2, 2)
    /\ last.cpu.cpsr = W(\hF000, \h1F)
    /\ cpu.registers[2] = W(0, \h7F)

(***************************************************************************)
(* C15: when the condition field of a fetched ARM instruction evaluates    *)
(* false, the step advances pc by exactly 4 and changes no general-purpose *)
(* register, sp, lr, flag or memory, whatever the instruction encodes.     *)
(***************************************************************************)
C15_FailedConditionIsNoOp ==
    (ArmStepped /\ ~ConditionPassed) =>
        /\ ~panicked
        /\ cpu.pc = Add32(last.address, W(0, 4))
        /\ cpu.registers = last.cpu.registers
        /\ cpu.sp = last.cpu.sp
        /\ cpu.lr = last.cpu.lr
        /\ cpu.cpsr = last.cpu.cpsr
        /\ memory = last.memory

(***************************************************************************)
(* C16: a cartridge load that fails, because the file cannot be opened or  *)
(* cannot be read, returns a failure and leaves the previously loaded      *)
(* image and all other memory as they were; a load that succeeds replaces  *)
(* the image and nothing else.                                             *)
(***************************************************************************)
C16_FailedLoadKeepsImage ==
    last.op = "load_rom" =>
        /\ last.ret = W(0, 0) => memory = last.memory
        /\ last.ret = W(0, 1) => memory = [last.memory EXCEPT !.rom = memory.rom]

(***************************************************************************)
(* C17: a single data transfer with a 12-bit immediate offset: pre-indexed *)
(* it accesses base +/- offset, and afterwards rn holds that address iff   *)
(* the write-back bit is set and is unchanged otherwise; post-indexed it   *)
(* accesses the base, and afterwards rn holds base +/- offset whatever the *)
(* write-back bit is.  The address accessed shows in what a load reads and *)
(* in where a store writes.                                                *)
(***************************************************************************)
\* the value a store writes: rd as an operand, its low byte in byte mode
StoredValue ==
    IF TransferBit(22)
    THEN W(0, Lo(Observed(TransferRd)) % 256)
    ELSE Observed(TransferRd)

\* memory after the store to the effective address
MemoryAfterStore ==
    IF TransferBit(22)
    THEN write_u8(last.memory, EffectiveAddress, Lo(StoredValue))
    ELSE write_u32(last.memory, EffectiveAddress, StoredValue)

ImmediateTransferExecuted == TransferExecuted /\ Field(last.value, 25, 1) = 0

\* the base register is one of 0..14 and is not also the destination of a load
PlainBase == TransferRn \in 0..14 /\ ~(TransferBit(20) /\ TransferRd = TransferRn)

C17_TransferAddressing ==
    (ImmediateTransferExecuted /\ PlainBase) =>
        /\ ~panicked
        /\ Stored(TransferRn) =
              IF BaseWritten THEN TransferDisplaced ELSE Observed(TransferRn)
        /\ IF TransferBit(20)
           THEN /\ memory = last.memory
                /\ Stored(TransferRd) =
                      IF TransferRd = 15 THEN WordAligned(LoadedValue) ELSE LoadedValue
           ELSE memory = MemoryAfterStore

(***************************************************************************)
(* C18: after a load step rd, one of 0..14, holds the value read at the    *)
(* effective address, the byte zero-extended in byte mode and the          *)
(* little-endian word otherwise, for every base register; after a store    *)
(* step the effective address holds the low byte of rd in byte mode and    *)
(* the full word otherwise, so that the value reads back from writable     *)
(* RAM.                                                                    *)
(***************************************************************************)
\* the value a read of the transfer's width returns at the effective address
ReadBack ==
    IF TransferBit(22)
    THEN W(0, read_u8(memory, EffectiveAddress))
    ELSE read_u32(memory, EffectiveAddress)

C18_TransferDataPath ==
    ImmediateTransferExecuted =>
        IF TransferBit(20)
        THEN TransferRd \in 0..14 =>
                /\ ~panicked
                /\ Stored(TransferRd) = LoadedValue
        ELSE /\ ~panicked
             /\ memory = MemoryAfterStore
             /\ WithinOneWritable(EffectiveAddress, IF TransferBit(22) THEN 1 ELSE 4)
                    => ReadBack = StoredValue

(***************************************************************************)
(* C19: in Thumb mode, the high half of a long branch with link (field h)  *)
(* stepped at address A leaves lr = A + 4 + signext23(h << 12) and         *)
(* pc = A + 2; the low half (field l) stepped next, at A + 2, then leaves  *)
(* pc = A + 4 + signext23(h << 12) + (l << 1) modulo 2^32 and lr = A + 4   *)
(* with its low bit set.                                                   *)
(***************************************************************************)
\* signext23(h << 12), modulo 2^32
LongBranchDisplacement(h) ==
    IF h >= 1024 THEN Neg32(U32((2048 - h) * 4096)) ELSE U32(h * 4096)

\* A + 4 + signext23(h << 12), modulo 2^32
LongBranchStaged(A, h) == Add32(Add32(A, W(0, 4)), LongBranchDisplacement(h))

\* the last step ran a low half right after the step that ran the high half
LongBranchCompleted ==
    /\ ThumbStepped
    /\ ThumbOpcode = 31
    /\ last.prior.op = "step"
    /\ Lo(last.prior.value) \div 2048 = 30
    /\ last.address = Add32(last.prior.address, W(0, 2))

C19_LongBranchWithLink ==
    /\ (ThumbStepped /\ ThumbOpcode = 30) =>
          /\ ~panicked
          /\ cpu.lr = LongBranchStaged(last.address, Lo(last.value) % 2048)
          /\ cpu.pc = Add32(last.address, W(0, 2))
    /\ LongBranchCompleted =>
          /\ ~panicked
          /\ cpu.pc = Add32(LongBranchStaged(last.prior.address,
                                             Lo(last.prior.value) % 2048),
                            W(0, (Lo(last.value) % 2048) * 2))
          /\ cpu.lr = Or32(Add32(last.prior.address, W(0, 4)), W(0, 1))

\* 0xF400 then 0xFFFF at 0x08000000: pc = 0x08000004 - 0x400000 + 0xFFE,
\* lr = 0x08000005
C19_Witness ==
    /\ LongBranchCompleted
    /\ last.prior.address = W(\h0800, \h0000)
    /\ Lo(last.prior.value) = \hF400
    /\ Lo(last.value) = \hFFFF
    /\ cpu.pc = W(\h07C0, \h1002)
    /\ cpu.lr = W(\h0800, \h0005)

(***************************************************************************)
(* C20: for every address a, readHalf(a) = readByte(a) + 256 *             *)
(* readByte(a + 1) and readWord(a) is the sum of readByte(a + i) * 256^i   *)
(* for i in 0..3; writeHalf and writeWord have exactly the effect of the   *)
(* byte writes of byte i of the value at a + i, in increasing i, each byte *)
(* dispatched to its region on its own.                                    *)
(***************************************************************************)
\* readByte(a + i) in the memory the last operation was called in
ByteAt(i) == read_u8(last.memory, Add32(last.address, W(0, i)))

\* byte i of the value the last operation was given
ValueByte(i) ==
    CASE i = 0 -> Lo(last.value) % 256
      [] i = 1 -> Lo(last.value) \div 256
      [] i = 2 -> Hi(last.value) % 256
      [] i = 3 -> Hi(last.value) \div 256

RECURSIVE ByteWrites(_, _)
\* memory after writeByte(a + i, byte i of the value) for i = 0, ..., n - 1
ByteWrites(m, n) ==
    IF n = 0 THEN m
    ELSE write_u8(ByteWrites(m, n - 1), Add32(last.address, W(0, n - 1)),
                  ValueByte(n - 1))

C20_LittleEndianComposition ==
    /\ last.op = "read_u16" =>
          /\ ~panicked
          /\ last.ret = W(0, ByteAt(0) + 256 * ByteAt(1))
    /\ last.op = "read_u32" =>
          /\ ~panicked
          /\ last.ret = W(ByteAt(2) + 256 * ByteAt(3), ByteAt(0) + 256 * ByteAt(1))
    /\ last.op = "write_u16" =>
          /\ ~panicked
          /\ memory = ByteWrites(last.memory, 2)
    /\ last.op = "write_u32" =>
          /\ ~panicked
          /\ memory = ByteWrites(last.memory, 4)

(***************************************************************************)
(* The interpreter from reset: Cpu::new() on a memory whose cartridge      *)
(* image holds one instruction word at 0x08000000 and another in the three *)
(* words after it; the rest of memory is as Memory::new() leaves it.       *)
(***************************************************************************)
\* instruction words that branch, write register 15 (by a move, an addition,
\* a subtraction, a load, a base write-back), compare, store, fail their
\* condition, or are the architecture's mode-changing instructions (bx, msr,
\* movs pc, swi), which this interpreter decodes as data-processing opcodes
ResetWords ==
    {W(\hEA00, \h0000), W(\hEAFF, \hFFFE), W(\hEAFF, \hFFFF), W(\hEB00, \h0000),
     W(\hE3A0, \hF003), W(\hE3A0, \hF402), W(\hE240, \hF004), W(\hE28F, \hF001),
     W(\hE59F, \hF000), W(\hE5DF, \hF000), W(\hE49F, \h0003), W(\hE5BF, \h0001),
     W(\hE1A0, \hF000), W(\hE3A0, \h0003), W(\hE15F, \h000F), W(\hE350, \h0000),
     W(\h0A00, \h0000), W(\hE50F, \hD00C), W(\hFFFF, \hFFFF), W(\h0000, \h0000),
     W(\hE12F, \hFF10), W(\hE129, \hF000), W(\hE169, \hF000), W(\hE1B0, \hF00E),
     W(\hEF00, \h0000)}

\* the cartridge image: `first` at 0x08000000, `second` at 0x08000004..0x0800000F
ResetImage(first, second) ==
    WordBytes(first) \o WordBytes(second) \o WordBytes(second) \o WordBytes(second)

InitReset ==
    /\ cpu = CpuNew
    /\ \E first \in ResetWords, second \in ResetWords :
        memory = [MemoryNew EXCEPT !.rom = ResetImage(first, second)]
    /\ vcount = 0
    /\ cycles = 0
    /\ overflow_checks \in BOOLEAN
    /\ panicked = FALSE
    /\ last = NoCall
    /\ ops = 0
    /\ frame = NoFrame

NextReset == CpuStep

SpecReset == InitReset /\ [][NextReset]_vars

(***************************************************************************)
(* C21: from the reset state (ARM mode, pc = 0x08000000), whatever memory  *)
(* holds, the program counter is word-aligned (pc mod 4 = 0) after every   *)
(* step.                                                                   *)
(***************************************************************************)
C21_PcWordAligned == last.op = "step" => Lo(cpu.pc) % 4 = 0

\* mov pc, #3 at 0x08000000 was stepped: the 3 was stored as 0
C21_Witness ==
    /\ last.op = "step"
    /\ last.address = W(\h0800, \h0000)
    /\ last.value = W(\hE3A0, \hF003)
    /\ ~panicked
    /\ cpu.pc = Zero32

\* the encoding flag, the mode field, the low 28 bits of the flags word and
\* the saved-flags slots are as Cpu::new() sets them
ModeStateAtReset ==
    /\ cpu.thumb_mode = FALSE
    /\ cpu.mode = "System"
    /\ And32(cpu.cpsr, W(\h0FFF, \hFFFF)) = W(0, \h1F)
    /\ cpu.spsr = [i \in 0..4 |-> Zero32]

\* the last step executed an instruction that writes register 15: a branch,
\* a move, addition or subtraction into it, a load into it or a base write-back
PcWritten ==
    /\ ArmStepped
    /\ ConditionPassed
    /\ \/ Field(last.value, 25, 3) = 5
       \/ /\ Field(last.value, 26, 2) = 1
          /\ \/ Field(last.value, 20, 1) = 1 /\ Field(last.value, 12, 4) = 15
             \/ /\ Field(last.value, 24, 1) = 0 \/ Field(last.value, 21, 1) = 1
                /\ Field(last.value, 16, 4) = 15
       \/ /\ Field(last.value, 26, 2) # 1
          /\ Field(last.value, 21, 4) \in {13, 4, 2}
          /\ Field(last.value, 12, 4) = 15

(***************************************************************************)
(* C22: from the reset state, whatever memory holds and however many steps *)
(* are taken, thumb_mode is false, the mode field is System, the low 28    *)
(* bits of the flags word are 0x1F and the saved-flags slots are zero;     *)
(* every step fetches a 32-bit word and decodes it as ARM, and a step that *)
(* does not write register 15 leaves pc 4 above the address it fetched at. *)
(***************************************************************************)
C22_ModeNeverChanges ==
    /\ ModeStateAtReset
    /\ last.op = "step" =>
          /\ ~last.cpu.thumb_mode
          /\ last.value = read_u32(last.memory, last.address)
          /\ ~PcWritten =>
                /\ ~panicked
                /\ cpu.pc = Add32(last.address, W(0, 4))

\* addresses read back after a byte write: those of the bus, and the start of
\* the last third and the last byte of the video RAM window
Probes == BusAddresses \cup {W(\h0601, \h0000), W(\h0601, \h7FFF)}

(***************************************************************************)
(* C23: a byte write to an address a of a writable region's window changes *)
(* the byte read at a, to the value written, and the byte read at no other *)
(* address of that window; in the video RAM window 0x06000000..0x06017FFF  *)
(* too, where a write to 0x06008000 leaves the byte read at 0x06000000.    *)
(***************************************************************************)
C23_ByteWritesDoNotInterfere ==
    last.op = "write_u8" =>
        \A window \in WritableWindows :
            InWindow(last.address, window) =>
                \A other \in Probes :
                    InWindow(other, window) =>
                        read_u8(memory, other) =
                            IF other = last.address
                            THEN Lo(last.value)
                            ELSE read_u8(last.memory, other)

(***************************************************************************)
(* The frame loop from construction: Gba::new() with a cartridge image,    *)
(* then run_frame.                                                         *)
(***************************************************************************)
\* `sub pc, r0, #4` (0xE240F004), which sets pc = 0xFFFFFFFC: the next fetch
\* is at the top of the address space, and the ones after it run from 0 upwards
FrameImages == {<<\h04, \hF0, \h40, \hE2>>}

InitFrame ==
    /\ cpu = CpuNew
    /\ \E image \in FrameImages : memory = [MemoryNew EXCEPT !.rom = image]
    /\ vcount = 0
    /\ cycles = 0
    /\ overflow_checks \in BOOLEAN
    /\ panicked = FALSE
    /\ last = NoCall
    /\ ops = 0
    /\ frame = NoFrame

NextFrame == GbaStep \/ RunFrame \/ FrameStep \/ FrameReturn

SpecFrame == InitFrame /\ [][NextFrame]_vars

\* run_frame has returned and nothing was called since
FrameReturned == last.op = "run_frame" /\ last.ret = W(0, 1)

(***************************************************************************)
(* C24: run_frame always returns: its loop never aborts, and when it       *)
(* returns the cycle count is 280,896 above its value at entry, which is   *)
(* the target; the line counter is within 0..227 in every state and equals *)
(* the number of ticks since construction (the cycle count) mod 228, and   *)
(* on return it equals its value at entry.                                 *)
(***************************************************************************)
C24_FrameLoop ==
    /\ frame.active => ~panicked
    /\ vcount \in 0..227
    /\ ~panicked => vcount = cycles % 228
    /\ FrameReturned =>
          /\ cycles = frame.target_cycles
          /\ vcount = frame.entry_vcount

=============================================================================
